---- MODULE Spec2Model ----
(***************************************************************************)
(* A model of check_wildfly.py, the Nagios probe for the WildFly/JBoss     *)
(* management API: one invocation of main() from command-line options to   *)
(* process exit, and the threshold evaluator check_levels on its own.       *)
(*                                                                         *)
(* Python values are tagged records (num / str / none / list).  Strings    *)
(* that the code tests with `in` are sequences of characters, so that      *)
(* `a in b` on two strings is the substring test Python performs.          *)
(* Numbers are exact rationals; a percentage is held in hundredths, as     *)
(* round(x, 2) leaves it.                                                  *)
(***************************************************************************)
EXTENDS Integers, Sequences, FiniteSets, TLC

VARIABLES
    pc,        \* position of the invocation: "main", "check", "exited"
    opts,      \* the parsed command-line options (optparse values)
    args,      \* (warning, critical) as main() passes them to the check function
    log,       \* events in program order: requests issued, calls of check_levels,
               \* lines written to standard output
    resps,     \* the HTTP responses received so far, in order
    exitCode,  \* the process exit status, NoExit while running
    lv_in,     \* evaluator harness: the arguments given to check_levels
    lv_out     \* evaluator harness: the outcome of that call, NotCalled before it

vars == <<pc, opts, args, log, resps, exitCode, lv_in, lv_out>>

-----------------------------------------------------------------------------
(* Python values *)

\* numbers are exact rationals n/d with d > 0 (Python int and float)
None == [t |-> "none"]
Rat(n, d) == [t |-> "num", n |-> n, d |-> d]
Num(n) == Rat(n, 1)
Str(s) == [t |-> "str", s |-> s]
List(xs) == [t |-> "list", xs |-> xs]

IsNum(v) == v.t = "num"
\* a >= b on two numbers
GE(a, b) == a.n * b.d >= b.n * a.d
IsStr(v) == v.t = "str"

\* Python == on the values of the model
PyEq(a, b) ==
    /\ a.t = b.t
    /\ CASE a.t = "num" -> a.n * b.d = b.n * a.d
         [] a.t = "str" -> a.s = b.s
         [] a.t = "none" -> TRUE
         [] OTHER -> FALSE

\* str.__contains__: needle occurs in hay as a contiguous run; "" occurs everywhere
IsSubstring(needle, hay) ==
    \E i \in 1..(Len(hay) - Len(needle) + 1) :
        SubSeq(hay, i, i + Len(needle) - 1) = needle

\* `x in container`: "yes", "no", or "TypeError" when Python raises
PyIn(x, container) ==
    CASE container.t = "str" ->
            IF IsStr(x)
            THEN (IF IsSubstring(x.s, container.s) THEN "yes" ELSE "no")
            ELSE "TypeError"
      [] container.t = "list" ->
            IF \E y \in container.xs : PyEq(x, y) THEN "yes" ELSE "no"
      [] OTHER -> "TypeError"

\* truth value of a Python object, for `x or default`
Truthy(v) ==
    CASE v.t = "num" -> v.n # 0
      [] v.t = "str" -> v.s # <<>>
      [] v.t = "list" -> v.xs # {}
      [] OTHER -> FALSE

PyOr(v, default) == IF Truthy(v) THEN v ELSE default

-----------------------------------------------------------------------------
(* Outcomes of a Python call: it returns a value, raises SystemExit through *)
(* sys.exit(code), or raises another exception.  ev is what the call wrote   *)
(* and requested, in order.                                                  *)

Return(v, ev) == [k |-> "return", v |-> v, ev |-> ev]
Exit(code, ev) == [k |-> "exit", code |-> code, ev |-> ev]
Raise(exc, ev) == [k |-> "raise", exc |-> exc, ev |-> ev]

\* print("<STATUS> - ...") : one line on standard output
Line(status, message) == [e |-> "line", status |-> status, msg |-> message]

\* print("CRITICAL - Unexpected value : %s" % data): the line shows the whole object
PayloadLine(data) ==
    [e |-> "line", status |-> "CRITICAL", msg |-> "Unexpected value", data |-> data]

\* a call of check_levels, kept in the log to tell what was classified
Classify(param, warning, critical, ok) ==
    [e |-> "classify", param |-> param, warning |-> warning, critical |-> critical, ok |-> ok]

\* Nagios exit codes of the status words the script writes
StatusCode(status) ==
    CASE status = "OK" -> 0
      [] status = "WARNING" -> 1
      [] status = "CRITICAL" -> 2
      [] OTHER -> 3

-----------------------------------------------------------------------------
(* check_levels *)

numeric_type(param) == param.t \in {"num", "none"}

\* check_levels_sets ending UNKNOWN (3) for a value found in none of the sets
check_levels_sets_unknown(param, warning, critical, message, ok) ==
    LET inC == PyIn(param, critical)
        inW == PyIn(param, warning)
        inO == PyIn(param, ok)
    IN  IF inC = "TypeError" THEN Raise("TypeError", <<>>)
        ELSE IF inC = "yes" THEN Exit(2, <<Line("CRITICAL", message)>>)
        ELSE IF inW = "TypeError" THEN Raise("TypeError", <<>>)
        ELSE IF inW = "yes" THEN Exit(1, <<Line("WARNING", message)>>)
        ELSE IF inO = "TypeError" THEN Raise("TypeError", <<>>)
        ELSE IF inO = "yes" THEN Exit(0, <<Line("OK", message)>>)
        ELSE Exit(3, <<Line("UNKNOWN", message)>>)

\* check_levels_sets asking the ok set ahead of the critical and warning sets
check_levels_sets_ok_first(param, warning, critical, message, ok) ==
    LET inC == PyIn(param, critical)
        inW == PyIn(param, warning)
        inO == PyIn(param, ok)
    IN  IF inO = "TypeError" THEN Raise("TypeError", <<>>)
        ELSE IF inO = "yes" THEN Exit(0, <<Line("OK", message)>>)
        ELSE IF inC = "TypeError" THEN Raise("TypeError", <<>>)
        ELSE IF inC = "yes" THEN Exit(2, <<Line("CRITICAL", message)>>)
        ELSE IF inW = "TypeError" THEN Raise("TypeError", <<>>)
        ELSE IF inW = "yes" THEN Exit(1, <<Line("WARNING", message)>>)
        ELSE IF ~IsNum(param) THEN Raise("TypeError", <<>>)
        ELSE Return(Num(2), <<Line("CRITICAL", <<"Unexpected value", message>>)>>)

\* the set-based branch of check_levels
check_levels_sets(param, warning, critical, message, ok) ==
    LET inC == PyIn(param, critical)
        inW == PyIn(param, warning)
        inO == PyIn(param, ok)
    IN  IF inC = "TypeError" THEN Raise("TypeError", <<>>)
        ELSE IF inC = "yes" THEN Exit(2, <<Line("CRITICAL", message)>>)
        ELSE IF inW = "TypeError" THEN Raise("TypeError", <<>>)
        ELSE IF inW = "yes" THEN Exit(1, <<Line("WARNING", message)>>)
        ELSE IF inO = "TypeError" THEN Raise("TypeError", <<>>)
        ELSE IF inO = "yes" THEN Exit(0, <<Line("OK", message)>>)
        \* "Unexpected value : %d" % param raises for anything but a number
        ELSE IF ~IsNum(param) THEN Raise("TypeError", <<>>)
        ELSE Return(Num(2), <<Line("CRITICAL", <<"Unexpected value", message>>)>>)

\* check_levels_numeric with the warning watermark tested ahead of the critical one
check_levels_numeric_warning_first(param, warning, critical, message) ==
    IF ~(IsNum(param) /\ IsNum(critical) /\ IsNum(warning)) THEN Raise("TypeError", <<>>)
    ELSE IF GE(param, warning) THEN Exit(1, <<Line("WARNING", message)>>)
    ELSE IF GE(param, critical) THEN Exit(2, <<Line("CRITICAL", message)>>)
    ELSE Exit(0, <<Line("OK", message)>>)

\* the numeric branch of check_levels; >= raises on None and on str against a number
check_levels_numeric(param, warning, critical, message) ==
    IF ~(IsNum(param) /\ IsNum(critical)) THEN Raise("TypeError", <<>>)
    ELSE IF GE(param, critical) THEN Exit(2, <<Line("CRITICAL", message)>>)
    ELSE IF ~IsNum(warning) THEN Raise("TypeError", <<>>)
    ELSE IF GE(param, warning) THEN Exit(1, <<Line("WARNING", message)>>)
    ELSE Exit(0, <<Line("OK", message)>>)

\* the call itself is logged (Classify) ahead of what it writes
check_levels(param, warning, critical, message, ok) ==
    LET o == IF numeric_type(critical) /\ numeric_type(warning)
             THEN check_levels_numeric(param, warning, critical, message)
             ELSE check_levels_sets(param, warning, critical, message, ok)
    IN  [o EXCEPT !.ev = <<Classify(param, warning, critical, ok)>> \o @]

-----------------------------------------------------------------------------
(* Texts: status labels and threshold texts, as character sequences *)

s_empty == <<>>
s_running == <<"r","u","n","n","i","n","g">>
s_stopped == <<"s","t","o","p","p","e","d">>
s_reload_required == <<"r","e","l","o","a","d","-","r","e","q","u","i","r","e","d">>
s_restart_required == <<"r","e","s","t","a","r","t","-","r","e","q","u","i","r","e","d">>
s_0 == <<"0">>
s_80 == <<"8","0">>
s_90 == <<"9","0">>

Digits == {"0","1","2","3","4","5","6","7","8","9"}
DigitVal(c) ==
    CASE c = "0" -> 0 [] c = "1" -> 1 [] c = "2" -> 2 [] c = "3" -> 3 [] c = "4" -> 4
      [] c = "5" -> 5 [] c = "6" -> 6 [] c = "7" -> 7 [] c = "8" -> 8 [] c = "9" -> 9

RECURSIVE DecimalValue(_)
DecimalValue(s) ==
    IF s = <<>> THEN 0
    ELSE 10 * DecimalValue(SubSeq(s, 1, Len(s) - 1)) + DigitVal(s[Len(s)])

\* float(x) for a number or an unsigned decimal text; any other text raises ValueError
PyFloat(v) ==
    IF IsNum(v) THEN Return(v, <<>>)
    ELSE IF IsStr(v) /\ v.s # <<>> /\ \A i \in 1..Len(v.s) : v.s[i] \in Digits
    THEN Return(Num(DecimalValue(v.s)), <<>>)
    ELSE Raise("ValueError", <<>>)

-----------------------------------------------------------------------------
(* The environment: command lines and HTTP responses *)

NoExit == "running"

ds_stat_types ==
    {"ActiveCount", "AvailableCount", "AverageBlockingTime", "AverageCreationTime",
     "CreatedCount", "DestroyedCount", "MaxCreationTime", "MaxUsedCount",
     "MaxWaitTime", "TimedOut", "TotalBlockingTime", "TotalCreationTime"}

thread_stat_types ==
    {"thread-count", "peak-thread-count", "total-started-thread-count", "daemon-thread-count"}

actions ==
    {"server_status", "heap_usage", "non_heap_usage", "eden_space_usage",
     "old_gen_usage", "perm_gen_usage", "code_cache_usage", "gctime",
     "queue_depth", "datasource", "xa_datasource", "threading"}

\* -W / -C as given on the command line: absent, or a text
ThresholdOpts == {None, Str(s_0), Str(s_80), Str(s_90), Str(s_stopped)}

\* the options an action does not read are left at their default (None)
NameOpts(action) ==
    [memory_pool : IF action \in {"eden_space_usage", "old_gen_usage", "perm_gen_usage",
                                  "code_cache_usage", "gctime"}
                   THEN {None, Str("Pool")} ELSE {None},
     queue_name : IF action = "queue_depth" THEN {None, Str(""), Str("testQueue")} ELSE {None},
     datasource_name : IF action \in {"datasource", "xa_datasource"}
                       THEN {None, Str("ExampleDS")} ELSE {None},
     ds_stat_type : IF action \in {"datasource", "xa_datasource"}
                    THEN {None, Str("ActiveCount"), Str("Bogus")} ELSE {None},
     thread_stat_type : IF action = "threading"
                        THEN {None, Str("thread-count"), Str("bogus")} ELSE {None}]

Modes ==
    {[mode |-> "standalone", node |-> None, instance |-> None],
     [mode |-> "domain", node |-> Str("master"), instance |-> Str("server-one")]}

CommandLines ==
    { [action |-> a, mode |-> m.mode, node |-> m.node, instance |-> m.instance,
       warning |-> w, critical |-> c, perf_data |-> p,
       memory_pool |-> n.memory_pool, queue_name |-> n.queue_name,
       datasource_name |-> n.datasource_name, ds_stat_type |-> n.ds_stat_type,
       thread_stat_type |-> n.thread_stat_type] :
      <<a, m, w, c, p, n>> \in
          UNION { {a1} \X Modes \X ThresholdOpts \X ThresholdOpts \X BOOLEAN \X NameOpts(a1)
                  : a1 \in actions } }

is_domain == opts.mode = "domain"

-----------------------------------------------------------------------------
(* Events and helpers on the log *)

Request(method, path, payload) ==
    [e |-> "request", method |-> method, path |-> path, payload |-> payload]

IsLine(x) == x.e = "line"
IsRequest(x) == x.e = "request"
IsClassify(x) == x.e = "classify"
Lines(l) == SelectSeq(l, IsLine)
Requests(l) == SelectSeq(l, IsRequest)
Classifies(l) == SelectSeq(l, IsClassify)

\* events ev happened before the call with outcome o
Then(ev, o) == [o EXCEPT !.ev = ev \o @]

-----------------------------------------------------------------------------
(* HTTP responses.  A body is invalid JSON, a JSON list, or a JSON object   *)
(* (a function from its keys).                                              *)

NetError == [net |-> "error"]
Http(status, body) == [net |-> "ok", status |-> status, body |-> body]
InvalidJson == [json |-> "invalid"]
JsonList == [json |-> "list"]
Dict(d) == [json |-> "dict", d |-> d]
EmptyDict == [k \in {} |-> None]
FailedBody == Dict("outcome" :> "failed")

Statuses == {200, 404, 500}

\* a JSON object with a top-level outcome field added
WithOutcome(body, outcome) == Dict(body.d @@ ("outcome" :> outcome))

\* every transport outcome with every status, and each good body with status 200
Responses(good, typical) ==
    {NetError}
    \cup {Http(st, b) : st \in Statuses,
                        b \in {InvalidJson, JsonList, FailedBody, typical,
                               WithOutcome(typical, "failed"),
                               WithOutcome(typical, "success")}}
    \cup {Http(200, b) : b \in good}

-----------------------------------------------------------------------------
(* Fetching *)

\* "http://{host}:{port}/management"; host and port do not vary in the model
base_url(host, port) == <<"management">>

\* '{}'.format(v)
Format(v) == IF v.t = "none" THEN "None" ELSE v.s

\* '/host/{}/server/{}'.format(node, instance)
DomainPrefix == <<"host", Format(opts.node), "server", Format(opts.instance)>>

\* digest_auth_json returning the data whatever its outcome field says
digest_auth_json_outcome_ignored(method, uri, payload, resp) ==
    LET sent == <<Request(method, base_url("host", "port") \o uri, payload)>>
        down == Exit(2, sent \o <<Line("CRITICAL", "JbossAS Error")>>)
    IN  IF resp.net = "error" THEN down
        ELSE IF resp.body.json # "dict" THEN down
        ELSE Return(resp.body.d, sent)

\* the body both fetchers share after the request is sent: requests raises, res.json()
\* raises, data['outcome'] raises on a non-object, outcome == "failed" exits, and
\* nothing reads res.status_code
digest_auth_json(method, uri, payload, resp) ==
    LET sent == <<Request(method, base_url("host", "port") \o uri, payload)>>
        down == Exit(2, sent \o <<Line("CRITICAL", "JbossAS Error")>>)
    IN  IF resp.net = "error" THEN down
        ELSE IF resp.body.json # "dict" THEN down
        ELSE IF "outcome" \in DOMAIN resp.body.d /\ resp.body.d["outcome"] = "failed"
        THEN Exit(2, sent \o <<PayloadLine(resp.body.d)>>)
        ELSE Return(resp.body.d, sent)

get_digest_auth_json(uri, payload, resp) == digest_auth_json("GET", uri, payload, resp)

post_digest_auth_json(uri, payload, resp) == digest_auth_json("POST", uri, payload, resp)

-----------------------------------------------------------------------------
(* Reporting *)

\* e is the exception class caught, or "str" when called with a message
exit_with_general_critical(e) ==
    IF e = "SystemExit" THEN Return(e, <<>>)
    ELSE IF e = "ValueError"
    THEN Exit(2, <<Line("CRITICAL", "General JbossAS Error")>>)
    ELSE Return(Num(2), <<Line("CRITICAL", "General JbossAS Error")>>)

\* try: ... except Exception as e: return exit_with_general_critical(e)
\* (SystemExit is not an Exception and passes through)
Catch(o) ==
    IF o.k = "raise" THEN Then(o.ev, exit_with_general_critical(o.exc)) ELSE o

\* params: tuples <<param, param_name, warning, critical>>; the result is the
\* suffix of the message: no block, or " |" and one item per tuple
performance_data(perf_data, params) ==
    IF ~perf_data THEN [block |-> FALSE, items |-> <<>>]
    ELSE [block |-> TRUE,
          items |-> [i \in 1..Len(params) |->
                        LET q == params[i]
                        IN  IF Truthy(q[3]) \/ Truthy(q[4])
                            THEN <<q[2], q[1], PyOr(q[3], Num(0)), PyOr(q[4], Num(0))>>
                            ELSE <<q[2], q[1]>>]]

-----------------------------------------------------------------------------
(* server_status *)

ServerStateBodies ==
    {Dict("result" :> Str(r)) :
        r \in {s_running, s_restart_required, s_reload_required, s_stopped, s_empty}}
    \cup {Dict(("outcome" :> "success") @@ ("result" :> Str(s_running))),
          Dict("outcome" :> "success")}

ServerStateResponses == Responses(ServerStateBodies, Dict("result" :> Str(s_running)))

check_server_status(warning, critical, perf_data, resp) ==
    LET w == PyOr(warning, Str(s_reload_required))
        c == PyOr(critical, Str(s_empty))
        ok == Str(s_running)
        payload == IF is_domain
                   THEN ("operation" :> "read-attribute") @@ ("name" :> "server-state")
                        @@ ("address" :> <<opts.node, opts.instance>>)
                   ELSE ("operation" :> "read-attribute") @@ ("name" :> "server-state")
        f == post_digest_auth_json(<<>>, payload, resp)
    IN  IF f.k # "return" THEN f
        ELSE IF "result" \notin DOMAIN f.v THEN Catch(Raise("KeyError", f.ev))
        ELSE LET res == f.v["result"]
                 message == [text |-> "Server Status", value |-> res,
                             perf |-> performance_data(perf_data,
                                          <<<<res, "server_status", w, c>>>>)]
             IN  Catch(Then(f.ev, check_levels(res, w, c, message, ok)))

-----------------------------------------------------------------------------
(* Percentages *)

\* 1024 * 1024
MiB == 1048576

\* percentages of PercentCap times the maximum and more are held at that value,
\* which is above every threshold of the model
PercentCap == 100

\* <<q, r>> with a * k = q * m + r and 0 <= r < m, for a >= 0, k >= 0, m > 0,
\* by doubling, so that no intermediate exceeds 2 * m
RECURSIVE MulDivMod(_, _, _)
MulDivMod(a, k, m) ==
    IF k = 0 THEN <<0, 0>>
    ELSE LET h == MulDivMod(a, k \div 2, m)
             q2 == 2 * h[1] + ((2 * h[2]) \div m)
             r2 == (2 * h[2]) % m
         IN  IF k % 2 = 0 THEN <<q2, r2>>
             ELSE <<q2 + (a \div m) + ((r2 + (a % m)) \div m), (r2 + (a % m)) % m>>

\* round(n * k / m) to the nearest integer, ties to the even one
RoundDiv(n, k, m) ==
    LET qr == MulDivMod(n, k, m)
    IN  IF 2 * qr[2] > m \/ (2 * qr[2] = m /\ qr[1] % 2 = 1) THEN qr[1] + 1 ELSE qr[1]

\* round(float(used * 100) / max, 2) for used >= 0 and max # 0
Percent(used, max) ==
    LET un == IF used.d = max.d THEN used.n ELSE used.n * max.d
        mn == IF used.d = max.d THEN max.n ELSE max.n * used.d
        am == IF mn < 0 THEN -mn ELSE mn
        h  == IF un \div am >= PercentCap THEN PercentCap * 10000
              ELSE RoundDiv(un, 10000, am)
    IN  Rat(IF mn < 0 THEN -h ELSE h, 100)

\* the two readings are fetched, then classified as a percentage; u and m are the
\* outcomes of the two getter calls, the second made only after the first returned
usage_check(text, name, w, c, perf_data, u, m) ==
    IF u.k # "return" THEN u
    ELSE IF m.k # "return" THEN Then(u.ev, m)
    ELSE IF m.v.n = 0 THEN Catch(Raise("ZeroDivisionError", u.ev \o m.ev))
    ELSE LET percent == Percent(u.v, m.v)
             message == [text |-> text, used |-> u.v, max |-> m.v,
                         perf |-> performance_data(perf_data,
                                      <<<<[fmt |-> "%.2f%%", v |-> percent], name, w, c>>>>)]
         IN  Catch(Then(u.ev \o m.ev, check_levels(percent, w, c, message, List({}))))

-----------------------------------------------------------------------------
(* heap_usage, non_heap_usage *)

UsedReadings == {439564992, 882265292, 986061209}
MaxReadings == {1037959168, 0, -1}

Usage(u, m) == ("used" :> Num(u)) @@ ("max" :> Num(m))
UsageVariants ==
    {Usage(u, m) : u \in UsedReadings, m \in MaxReadings}
    \cup {"used" :> Num(439564992), "max" :> Num(1037959168)}
DefaultNonHeap == Usage(217580768, 536870912)
DefaultHeap == Usage(439564992, 1037959168)

\* the section the action reads varies, the other one is as the server reports it
MemoryBodies(is_heap) ==
    IF is_heap
    THEN {Dict(("heap-memory-usage" :> x) @@ ("non-heap-memory-usage" :> DefaultNonHeap))
             : x \in UsageVariants}
         \cup {Dict("non-heap-memory-usage" :> DefaultNonHeap)}
    ELSE {Dict(("heap-memory-usage" :> DefaultHeap) @@ ("non-heap-memory-usage" :> x))
             : x \in UsageVariants}
         \cup {Dict("heap-memory-usage" :> DefaultHeap)}

MemoryResponses(is_heap) ==
    Responses(MemoryBodies(is_heap),
              Dict(("heap-memory-usage" :> DefaultHeap)
                   @@ ("non-heap-memory-usage" :> DefaultNonHeap)))

get_memory_usage(is_heap, memory_value, resp) ==
    LET payload == "include-runtime" :> "true"
        path == <<"core-service", "platform-mbean", "type", "memory">>
        url == IF is_domain THEN DomainPrefix \o path ELSE path
        f == get_digest_auth_json(url, payload, resp)
        section == IF is_heap THEN "heap-memory-usage" ELSE "non-heap-memory-usage"
    IN  IF f.k # "return" THEN f
        ELSE IF section \notin DOMAIN f.v THEN Catch(Raise("KeyError", f.ev))
        ELSE IF memory_value \notin DOMAIN f.v[section] THEN Catch(Raise("KeyError", f.ev))
        ELSE Return(Rat(f.v[section][memory_value].n, MiB), f.ev)

check_heap_usage(warning, critical, perf_data, r1, r2) ==
    LET w == PyOr(warning, Num(80))
        c == PyOr(critical, Num(90))
    IN  usage_check("Heap Memory Utilization", "heap_usage", w, c, perf_data,
                    get_memory_usage(TRUE, "used", r1), get_memory_usage(TRUE, "max", r2))

check_non_heap_usage(warning, critical, perf_data, r1, r2) ==
    LET w == PyOr(warning, Num(80))
        c == PyOr(critical, Num(90))
    IN  usage_check("Non Heap Memory Utilization", "non_heap_usage", w, c, perf_data,
                    get_memory_usage(FALSE, "used", r1), get_memory_usage(FALSE, "max", r2))

-----------------------------------------------------------------------------
(* eden_space_usage, old_gen_usage, perm_gen_usage, code_cache_usage *)

PoolEntry(u) == "usage" :> u
PoolBodies ==
    {Dict("name" :> (("Pool" :> PoolEntry(u)) @@ ("Code_Cache" :> PoolEntry(u))))
        : u \in UsageVariants}
    \cup {Dict("name" :> EmptyDict), Dict(EmptyDict)}

PoolResponses ==
    Responses(PoolBodies,
              Dict("name" :> (("Pool" :> PoolEntry(DefaultHeap))
                              @@ ("Code_Cache" :> PoolEntry(DefaultHeap)))))

\* d[key] for a key that may be None or a text: None is never a key
HasKey(d, key) == key.t = "str" /\ key.s \in DOMAIN d

get_memory_pool_usage(pool_name, memory_value, resp) ==
    LET payload == ("include-runtime" :> "true") @@ ("recursive" :> "true")
        path == <<"core-service", "platform-mbean", "type", "memory-pool">>
        url == IF is_domain THEN DomainPrefix \o path ELSE path
        f == get_digest_auth_json(url, payload, resp)
    IN  IF f.k # "return" THEN f
        ELSE IF "name" \notin DOMAIN f.v THEN Catch(Raise("KeyError", f.ev))
        ELSE IF ~HasKey(f.v["name"], pool_name) THEN Catch(Raise("KeyError", f.ev))
        ELSE IF "usage" \notin DOMAIN f.v["name"][pool_name.s]
        THEN Catch(Raise("KeyError", f.ev))
        ELSE IF memory_value \notin DOMAIN f.v["name"][pool_name.s]["usage"]
        THEN Catch(Raise("KeyError", f.ev))
        ELSE Return(Rat(f.v["name"][pool_name.s]["usage"][memory_value].n, MiB), f.ev)

\* the second call passes three arguments to get_memory_pool_usage(pool_name,
\* memory_value): Python raises TypeError before the function is entered
check_eden_space_usage(memory_pool, warning, critical, perf_data, r1, r2) ==
    LET w == PyOr(warning, Num(80))
        c == PyOr(critical, Num(90))
        u == get_memory_pool_usage(memory_pool, "used", r1)
    IN  IF u.k # "return" THEN u
        ELSE Catch(Raise("TypeError", u.ev))

check_old_gen_usage(memory_pool, warning, critical, perf_data, r1, r2) ==
    LET w == PyOr(warning, Num(80))
        c == PyOr(critical, Num(90))
    IN  usage_check("Old_Gen Utilization", "old_gen_usage", w, c, perf_data,
                    get_memory_pool_usage(memory_pool, "used", r1),
                    get_memory_pool_usage(memory_pool, "max", r2))

check_perm_gen_usage(memory_pool, warning, critical, perf_data, r1, r2) ==
    LET w == PyOr(warning, Num(90))
        c == PyOr(critical, Num(95))
    IN  usage_check("Perm_Gen Utilization", "perm_gen_usage", w, c, perf_data,
                    get_memory_pool_usage(memory_pool, "used", r1),
                    get_memory_pool_usage(memory_pool, "max", r2))

check_code_cache_usage(memory_pool, warning, critical, perf_data, r1, r2) ==
    LET w == PyOr(warning, Num(90))
        c == PyOr(critical, Num(95))
        pool == IF memory_pool = None THEN Str("Code_Cache") ELSE memory_pool
    IN  usage_check("Code_Cache Utilization", "code_cache_usage", w, c, perf_data,
                    get_memory_pool_usage(pool, "used", r1),
                    get_memory_pool_usage(pool, "max", r2))

-----------------------------------------------------------------------------
(* gctime *)

GcTimes == {0, 250, 2000, 5000}
GcCounts == {0, 1, 3}
GcBodies ==
    {Dict("name" :> ("Pool" :> (("collection-time" :> Num(t)) @@ ("collection-count" :> Num(n)))))
        : t \in GcTimes, n \in GcCounts}
    \cup {Dict("name" :> ("Pool" :> ("collection-time" :> Num(250)))),
          Dict("name" :> ("Pool" :> ("collection-count" :> Num(1)))),
          Dict("name" :> EmptyDict), Dict(EmptyDict)}

GcResponses ==
    Responses(GcBodies,
              Dict("name" :> ("Pool" :> (("collection-time" :> Num(250))
                                          @@ ("collection-count" :> Num(1))))))

check_gctime(memory_pool, warning, critical, perf_data, resp) ==
    LET w == PyOr(warning, Num(500))
        c == PyOr(critical, Num(1000))
        payload == ("include-runtime" :> "true") @@ ("recursive" :> "true")
        path == <<"core-service", "platform-mbean", "type", "garbage-collector">>
        url == IF is_domain THEN DomainPrefix \o path ELSE path
        f == get_digest_auth_json(url, payload, resp)
    IN  IF f.k # "return" THEN f
        ELSE IF "name" \notin DOMAIN f.v THEN Catch(Raise("KeyError", f.ev))
        ELSE IF ~HasKey(f.v["name"], memory_pool) THEN Catch(Raise("KeyError", f.ev))
        ELSE IF "collection-time" \notin DOMAIN f.v["name"][memory_pool.s]
        THEN Catch(Raise("KeyError", f.ev))
        ELSE IF "collection-count" \notin DOMAIN f.v["name"][memory_pool.s]
        THEN Catch(Raise("KeyError", f.ev))
        ELSE LET gc_time == f.v["name"][memory_pool.s]["collection-time"]
                 gc_count == f.v["name"][memory_pool.s]["collection-count"]
                 avg_gc_time == IF gc_count.n > 0 THEN Rat(gc_time.n, gc_count.n) ELSE Num(0)
                 message == [text |-> "GC", pool |-> memory_pool, time |-> gc_time,
                             count |-> gc_count, avg |-> avg_gc_time,
                             perf |-> performance_data(perf_data,
                                 <<<<[fmt |-> "%.2fms", v |-> avg_gc_time], "gctime", w, c>>>>)]
             IN  Catch(Then(f.ev, check_levels(avg_gc_time, w, c, message, List({}))))

-----------------------------------------------------------------------------
(* threading, queue_depth, datasource, xa_datasource *)

CountReadings == {5, 85, 95, 150, 250}
CountBodies(key) == {Dict(key :> Num(v)) : v \in CountReadings} \cup {Dict(EmptyDict)}
CountResponses(key) == Responses(CountBodies(key), Dict(key :> Num(5)))

check_threading(thread_stat_type, warning, critical, perf_data, resp) ==
    LET w == PyOr(warning, Num(100))
        c == PyOr(critical, Num(200))
    IN  IF ~(IsStr(thread_stat_type) /\ thread_stat_type.s \in thread_stat_types)
        THEN exit_with_general_critical("str")
        ELSE LET payload == "include-runtime" :> "true"
                 path == <<"core-service", "platform-mbean", "type", "threading">>
                 url == IF is_domain THEN DomainPrefix \o path ELSE path
                 f == get_digest_auth_json(url, payload, resp)
             IN  IF f.k # "return" THEN f
                 ELSE IF ~HasKey(f.v, thread_stat_type) THEN Catch(Raise("KeyError", f.ev))
                 ELSE LET data == f.v[thread_stat_type.s]
                          message == [text |-> "Threading Statistics",
                                      type |-> thread_stat_type, value |-> data,
                                      perf |-> performance_data(perf_data,
                                                   <<<<data, "threading", w, c>>>>)]
                      IN  Catch(Then(f.ev, check_levels(data, w, c, message, List({}))))

check_queue_depth(queue_name, warning, critical, perf_data, resp) ==
    LET w == PyOr(warning, Num(100))
        c == PyOr(critical, Num(200))
    IN  IF queue_name = None
        THEN exit_with_general_critical("str")
        ELSE LET payload == ("include-runtime" :> "true") @@ ("recursive" :> "true")
                 path == <<"subsystem", "messaging", "hornetq-server", "default",
                           "jms-queue", queue_name.s>>
                 url == IF is_domain THEN DomainPrefix \o path ELSE path
                 f == get_digest_auth_json(url, payload, resp)
             IN  IF f.k # "return" THEN f
                 ELSE IF "message-count" \notin DOMAIN f.v
                 THEN Catch(Raise("KeyError", f.ev))
                 ELSE LET queue_depth == f.v["message-count"]
                          message == [text |-> "Queue", name |-> queue_name,
                                      value |-> queue_depth,
                                      perf |-> performance_data(perf_data,
                                                   <<<<queue_depth, "queue_depth", w, c>>>>)]
                      IN  Catch(Then(f.ev, check_levels(queue_depth, w, c, message, List({}))))

get_datasource_stats(is_xa, ds_name, ds_stat_type, resp) ==
    IF ds_name = None THEN exit_with_general_critical("str")
    ELSE IF ~(IsStr(ds_stat_type) /\ ds_stat_type.s \in ds_stat_types)
    THEN exit_with_general_critical("str")
    ELSE LET payload == ("include-runtime" :> "true") @@ ("recursive" :> "true")
             path == <<"subsystem", "datasources",
                       IF is_xa THEN "xa-data-source" ELSE "data-source",
                       ds_name.s, "statistics", "pool", "">>
             url == IF is_domain THEN DomainPrefix \o path ELSE path
             f == get_digest_auth_json(url, payload, resp)
         IN  IF f.k # "return" THEN f
             ELSE IF ~HasKey(f.v, ds_stat_type) THEN Catch(Raise("KeyError", f.ev))
             ELSE Return(f.v[ds_stat_type.s], f.ev)

check_non_xa_datasource(ds_name, ds_stat_type, warning, critical, perf_data, resp) ==
    LET w == PyOr(warning, Num(0))
        c == PyOr(critical, Num(10))
        g == get_datasource_stats(FALSE, ds_name, ds_stat_type, resp)
    IN  IF g.k # "return" THEN g
        ELSE LET data == g.v
                 message == [text |-> "DataSource", type |-> ds_stat_type, value |-> data,
                             perf |-> performance_data(perf_data,
                                          <<<<data, "datasource", w, c>>>>)]
             IN  Catch(Then(g.ev, check_levels(data, w, c, message, List({}))))

check_xa_datasource(ds_name, ds_stat_type, warning, critical, perf_data, resp) ==
    LET w == PyOr(warning, Num(0))
        c == PyOr(critical, Num(10))
        g == get_datasource_stats(TRUE, ds_name, ds_stat_type, resp)
    IN  IF g.k # "return" THEN g
        ELSE LET data == g.v
                 message == [text |-> "XA DataSource", type |-> ds_stat_type, value |-> data,
                             perf |-> performance_data(perf_data,
                                          <<<<data, "xa_datasource", w, c>>>>)]
             IN  Catch(Then(g.ev, check_levels(data, w, c, message, List({}))))

-----------------------------------------------------------------------------
(* main and the process *)

\* the thresholds main() hands to the check function
main_thresholds ==
    IF opts.action = "server_status"
    THEN Return([warning |-> PyOr(opts.warning, Str(s_empty)),
                 critical |-> PyOr(opts.critical, Str(s_empty))], <<>>)
    ELSE LET w == PyFloat(PyOr(opts.warning, Num(0)))
             c == PyFloat(PyOr(opts.critical, Num(0)))
         IN  IF w.k = "raise" THEN w
             ELSE IF c.k = "raise" THEN c
             ELSE Return([warning |-> w.v, critical |-> c.v], <<>>)

NoArgs == [warning |-> None, critical |-> None]

\* main() up to the dispatch; a ValueError of float() is not caught: the
\* interpreter writes a traceback to standard error and exits with 1
main ==
    /\ pc = "main"
    /\ LET t == main_thresholds
       IN  IF t.k = "raise"
           THEN /\ pc' = "exited"
                /\ exitCode' = 1
                /\ args' = args
           ELSE /\ pc' = "check"
                /\ args' = t.v
                /\ exitCode' = exitCode
    /\ UNCHANGED <<opts, log, resps, lv_in, lv_out>>

\* sys.exit(main(...)): the check function exits by itself or returns the status
Finish(o, rs) ==
    /\ pc' = "exited"
    /\ log' = log \o o.ev
    /\ resps' = SubSeq(rs, 1, Len(Requests(o.ev)))
    /\ exitCode' = IF o.k = "exit" THEN o.code ELSE o.v.n
    /\ UNCHANGED <<opts, args, lv_in, lv_out>>

Dispatch(action) == pc = "check" /\ opts.action = action

do_server_status ==
    /\ Dispatch("server_status")
    /\ \E r \in ServerStateResponses :
          Finish(check_server_status(args.warning, args.critical, opts.perf_data, r), <<r>>)

do_heap_usage ==
    /\ Dispatch("heap_usage")
    /\ \E r1, r2 \in MemoryResponses(TRUE) :
          Finish(check_heap_usage(args.warning, args.critical, opts.perf_data, r1, r2),
                 <<r1, r2>>)

do_non_heap_usage ==
    /\ Dispatch("non_heap_usage")
    /\ \E r1, r2 \in MemoryResponses(FALSE) :
          Finish(check_non_heap_usage(args.warning, args.critical, opts.perf_data, r1, r2),
                 <<r1, r2>>)

do_eden_space_usage ==
    /\ Dispatch("eden_space_usage")
    /\ \E r1, r2 \in PoolResponses :
          Finish(check_eden_space_usage(opts.memory_pool, args.warning, args.critical,
                                        opts.perf_data, r1, r2), <<r1, r2>>)

do_old_gen_usage ==
    /\ Dispatch("old_gen_usage")
    /\ \E r1, r2 \in PoolResponses :
          Finish(check_old_gen_usage(opts.memory_pool, args.warning, args.critical,
                                     opts.perf_data, r1, r2), <<r1, r2>>)

do_perm_gen_usage ==
    /\ Dispatch("perm_gen_usage")
    /\ \E r1, r2 \in PoolResponses :
          Finish(check_perm_gen_usage(opts.memory_pool, args.warning, args.critical,
                                      opts.perf_data, r1, r2), <<r1, r2>>)

do_code_cache_usage ==
    /\ Dispatch("code_cache_usage")
    /\ \E r1, r2 \in PoolResponses :
          Finish(check_code_cache_usage(opts.memory_pool, args.warning, args.critical,
                                        opts.perf_data, r1, r2), <<r1, r2>>)

do_gctime ==
    /\ Dispatch("gctime")
    /\ \E r \in GcResponses :
          Finish(check_gctime(opts.memory_pool, args.warning, args.critical,
                              opts.perf_data, r), <<r>>)

do_queue_depth ==
    /\ Dispatch("queue_depth")
    /\ \E r \in CountResponses("message-count") :
          Finish(check_queue_depth(opts.queue_name, args.warning, args.critical,
                                   opts.perf_data, r), <<r>>)

do_datasource ==
    /\ Dispatch("datasource")
    /\ \E r \in CountResponses("ActiveCount") :
          Finish(check_non_xa_datasource(opts.datasource_name, opts.ds_stat_type,
                                         args.warning, args.critical, opts.perf_data, r),
                 <<r>>)

do_xa_datasource ==
    /\ Dispatch("xa_datasource")
    /\ \E r \in CountResponses("ActiveCount") :
          Finish(check_xa_datasource(opts.datasource_name, opts.ds_stat_type,
                                     args.warning, args.critical, opts.perf_data, r),
                 <<r>>)

do_threading ==
    /\ Dispatch("threading")
    /\ \E r \in CountResponses("thread-count") :
          Finish(check_threading(opts.thread_stat_type, args.warning, args.critical,
                                 opts.perf_data, r), <<r>>)

NotCalled == [k |-> "none"]

Init ==
    /\ pc = "main"
    /\ opts \in CommandLines
    /\ args = NoArgs
    /\ log = <<>>
    /\ resps = <<>>
    /\ exitCode = NoExit
    /\ lv_in = NotCalled
    /\ lv_out = NotCalled

Next ==
    \/ main
    \/ do_server_status
    \/ do_heap_usage
    \/ do_non_heap_usage
    \/ do_eden_space_usage
    \/ do_old_gen_usage
    \/ do_perm_gen_usage
    \/ do_code_cache_usage
    \/ do_gctime
    \/ do_queue_depth
    \/ do_datasource
    \/ do_xa_datasource
    \/ do_threading

Spec == Init /\ [][Next]_vars

-----------------------------------------------------------------------------
(* check_levels on its own: the arguments are drawn, then the call is made *)

MaxVal == 3

LevelLabels == {s_empty, s_running, s_stopped, s_reload_required}
LevelLists == {List(x) : x \in SUBSET {Num(1), Str(s_running), Str(s_stopped)}}
LevelParams == {Num(n) : n \in 0..MaxVal} \cup {Str(l) : l \in LevelLabels} \cup {None}
LevelThresholds ==
    {Num(n) : n \in 0..MaxVal} \cup {None} \cup {Str(l) : l \in LevelLabels} \cup LevelLists
LevelOks == {Str(l) : l \in LevelLabels} \cup LevelLists

IdleOpts == CHOOSE o \in CommandLines : o.action = "server_status"

LevelsInit ==
    /\ pc = "levels"
    /\ opts = IdleOpts
    /\ args = NoArgs
    /\ log = <<>>
    /\ resps = <<>>
    /\ exitCode = NoExit
    /\ lv_in \in [param : LevelParams, warning : LevelThresholds,
                  critical : LevelThresholds, ok : LevelOks]
    /\ lv_out = NotCalled

levels_call ==
    /\ pc = "levels"
    /\ lv_out = NotCalled
    /\ lv_out' = check_levels(lv_in.param, lv_in.warning, lv_in.critical, "message", lv_in.ok)
    /\ UNCHANGED <<pc, opts, args, log, resps, exitCode, lv_in>>

LevelsNext == levels_call

LevelsSpec == LevelsInit /\ [][LevelsNext]_vars

-----------------------------------------------------------------------------
(* What an outcome or a finished invocation reports *)

\* the call wrote exactly one line, of this status, and left with this exit code
Classified(o, status, code) ==
    /\ o.k = "exit"
    /\ o.code = code
    /\ Len(Lines(o.ev)) = 1
    /\ Lines(o.ev)[1].status = status

LevelsCalled == lv_out.k # "none"
NumericCall == LevelsCalled /\ IsNum(lv_in.param) /\ IsNum(lv_in.warning) /\ IsNum(lv_in.critical)
SetBasedCall == LevelsCalled /\ ~(numeric_type(lv_in.critical) /\ numeric_type(lv_in.warning))
InNeitherSet ==
    SetBasedCall /\ PyIn(lv_in.param, lv_in.critical) = "no"
                 /\ PyIn(lv_in.param, lv_in.warning) = "no"

Exited == pc = "exited"
\* the invocation got past main()'s parsing of the thresholds
Dispatched == Exited /\ args # NoArgs
StdoutLines == Lines(log)
\* the invocation wrote exactly one line, of this status, and ended with this code
EndsWith(status, code) ==
    /\ Len(StdoutLines) = 1
    /\ StdoutLines[1].status = status
    /\ exitCode = code

\* response i was received, with status 200 and a JSON object not marked failed
GoodResponse(i) ==
    /\ Len(resps) >= i
    /\ resps[i].net = "ok"
    /\ resps[i].status = 200
    /\ resps[i].body.json = "dict"
    /\ ~("outcome" \in DOMAIN resps[i].body.d /\ resps[i].body.d["outcome"] = "failed")
Body(i) == resps[i].body.d

-----------------------------------------------------------------------------
(* C1 *)

\* C1: with a numeric value v and numeric thresholds (w, c), w > c included,
\* check_levels ends CRITICAL (2) if v >= c, otherwise WARNING (1) if v >= w,
\* otherwise OK (0), each with exactly one line of that status, and nothing else.
C1_NumericLevels ==
    NumericCall =>
        IF lv_in.param.n >= lv_in.critical.n THEN Classified(lv_out, "CRITICAL", 2)
        ELSE IF lv_in.param.n >= lv_in.warning.n THEN Classified(lv_out, "WARNING", 1)
        ELSE Classified(lv_out, "OK", 0)

\* a value between an inverted pair of thresholds (c <= v < w) was classified CRITICAL
C1_Witness ==
    /\ NumericCall
    /\ lv_in.warning.n > lv_in.critical.n
    /\ lv_in.param.n >= lv_in.critical.n
    /\ lv_in.param.n < lv_in.warning.n
    /\ Classified(lv_out, "CRITICAL", 2)

-----------------------------------------------------------------------------
(* C2 *)

\* the requests and the lines of the log, in order (calls of check_levels left out)
Visible(x) == IsLine(x) \/ IsRequest(x)
VisibleLog == SelectSeq(log, Visible)

\* C2: every invocation that reaches its check function writes exactly one status
\* line, that line is the last thing it does (no line and no request follows it),
\* and the exit code is the one of that line's status.
C2_OneLineThenExit ==
    Dispatched =>
        /\ Len(StdoutLines) = 1
        /\ IsLine(VisibleLog[Len(VisibleLog)])
        /\ exitCode = StatusCode(StdoutLines[1].status)

-----------------------------------------------------------------------------
(* C3 *)

\* server_status ran with no -W and no -C and its fetch returned this server-state
ServerStateWas(r) ==
    /\ Exited
    /\ opts.action = "server_status"
    /\ opts.warning = None
    /\ opts.critical = None
    /\ GoodResponse(1)
    /\ "result" \in DOMAIN Body(1)
    /\ Body(1)["result"] = Str(r)

\* C3: with default thresholds, server-state "running" ends OK (0),
\* "restart-required" and "reload-required" end WARNING (1), "stopped" ends
\* CRITICAL (2).
C3_ServerStates ==
    /\ ServerStateWas(s_running) => EndsWith("OK", 0)
    /\ ServerStateWas(s_restart_required) => EndsWith("WARNING", 1)
    /\ ServerStateWas(s_reload_required) => EndsWith("WARNING", 1)
    /\ ServerStateWas(s_stopped) => EndsWith("CRITICAL", 2)

-----------------------------------------------------------------------------
(* C4 *)

NoOkSet == lv_in.ok = List({})

-----------------------------------------------------------------------------
(* C5 *)

BadDatasourceParams ==
    /\ opts.action \in {"datasource", "xa_datasource"}
    /\ \/ opts.datasource_name = None
       \/ ~(IsStr(opts.ds_stat_type) /\ opts.ds_stat_type.s \in ds_stat_types)
BadThreadParams ==
    /\ opts.action = "threading"
    /\ ~(IsStr(opts.thread_stat_type) /\ opts.thread_stat_type.s \in thread_stat_types)
QueueNameAbsent == opts.action = "queue_depth" /\ opts.queue_name = None
QueueNameEmpty == opts.action = "queue_depth" /\ opts.queue_name = Str("")

\* C5: with the datasource name absent, a datasource or thread statistic type
\* outside its set, or the queue name absent, the invocation ends CRITICAL with
\* exit code 2 whatever the thresholds, and that is the only line written.
C5_InvalidParameterIsCritical ==
    (Dispatched /\ (BadDatasourceParams \/ BadThreadParams \/ QueueNameAbsent))
        => EndsWith("CRITICAL", 2)

-----------------------------------------------------------------------------
(* C6 *)

PoolRead ==
    IF opts.action = "code_cache_usage" /\ opts.memory_pool = None
    THEN Str("Code_Cache") ELSE opts.memory_pool

\* the first response is a good one and lacks a key the action reads from it
FirstFieldMissing ==
    /\ GoodResponse(1)
    /\ CASE opts.action = "heap_usage" ->
                \/ "heap-memory-usage" \notin DOMAIN Body(1)
                \/ "used" \notin DOMAIN Body(1)["heap-memory-usage"]
         [] opts.action = "non_heap_usage" ->
                \/ "non-heap-memory-usage" \notin DOMAIN Body(1)
                \/ "used" \notin DOMAIN Body(1)["non-heap-memory-usage"]
         [] opts.action \in {"eden_space_usage", "old_gen_usage", "perm_gen_usage",
                             "code_cache_usage"} ->
                /\ IsStr(PoolRead)
                /\ \/ "name" \notin DOMAIN Body(1)
                   \/ PoolRead.s \notin DOMAIN Body(1)["name"]
                   \/ "used" \notin DOMAIN Body(1)["name"][PoolRead.s]["usage"]
         [] opts.action = "gctime" ->
                /\ IsStr(opts.memory_pool)
                /\ \/ "name" \notin DOMAIN Body(1)
                   \/ opts.memory_pool.s \notin DOMAIN Body(1)["name"]
                   \/ "collection-time" \notin DOMAIN Body(1)["name"][opts.memory_pool.s]
                   \/ "collection-count" \notin DOMAIN Body(1)["name"][opts.memory_pool.s]
         [] opts.action = "threading" -> "thread-count" \notin DOMAIN Body(1)
         [] opts.action = "queue_depth" -> "message-count" \notin DOMAIN Body(1)
         [] opts.action \in {"datasource", "xa_datasource"} ->
                "ActiveCount" \notin DOMAIN Body(1)
         [] OTHER -> FALSE

\* C6: when a key expected in a successfully fetched response is absent, the
\* invocation ends CRITICAL with exit code 2 at once: one line, no call of
\* check_levels on a substitute value, no further fetch.
C6_MissingFieldIsFatal ==
    (Dispatched /\ FirstFieldMissing) =>
        /\ EndsWith("CRITICAL", 2)
        /\ Classifies(log) = <<>>
        /\ Len(Requests(log)) = 1

-----------------------------------------------------------------------------
(* C7 *)

PlatformMBean(type) == <<"core-service", "platform-mbean", "type", type>>

\* the path suffix of the action, as the standalone requests have it
ActionSuffix ==
    CASE opts.action = "server_status" -> <<>>
      [] opts.action \in {"heap_usage", "non_heap_usage"} -> PlatformMBean("memory")
      [] opts.action \in {"eden_space_usage", "old_gen_usage", "perm_gen_usage",
                          "code_cache_usage"} -> PlatformMBean("memory-pool")
      [] opts.action = "gctime" -> PlatformMBean("garbage-collector")
      [] opts.action = "threading" -> PlatformMBean("threading")
      [] opts.action = "queue_depth" ->
            <<"subsystem", "messaging", "hornetq-server", "default", "jms-queue",
              Format(opts.queue_name)>>
      [] opts.action = "datasource" ->
            <<"subsystem", "datasources", "data-source", Format(opts.datasource_name),
              "statistics", "pool", "">>
      [] opts.action = "xa_datasource" ->
            <<"subsystem", "datasources", "xa-data-source", Format(opts.datasource_name),
              "statistics", "pool", "">>

\* C7: in domain mode every request of every action, server_status included, goes
\* to /management + /host/{node}/server/{instance} + the action's suffix; in
\* standalone mode to /management + the action's suffix, without that prefix.
C7_DomainPrefix ==
    \A i \in 1..Len(log) :
        IsRequest(log[i]) =>
            log[i].path =
                <<"management">>
                \o (IF opts.mode = "domain"
                    THEN <<"host", Format(opts.node), "server", Format(opts.instance)>>
                    ELSE <<>>)
                \o ActionSuffix

-----------------------------------------------------------------------------
(* C8 *)

\* a network error, a status outside 2xx, or a body that is not JSON
TransportFailure(r) ==
    \/ r.net = "error"
    \/ r.status \notin 200..299
    \/ r.body.json = "invalid"

\* C8: when the first fetch meets a non-success transport outcome, the invocation
\* fails there: no call of check_levels follows, no further request, and it ends
\* with one CRITICAL line and exit code 2.
C8_TransportFailureIsFatal ==
    (Exited /\ Len(resps) >= 1 /\ TransportFailure(resps[1])) =>
        /\ Classifies(log) = <<>>
        /\ Len(Requests(log)) = 1
        /\ EndsWith("CRITICAL", 2)

-----------------------------------------------------------------------------
(* C9 *)

\* C9: for queue_depth, datasource, xa_datasource and threading, when the queue
\* name is absent or empty, the datasource name is absent, or a statistic type is
\* outside its set, the invocation ends without having issued any request.
C9_ValidationBeforeFetch ==
    (Dispatched /\ (QueueNameAbsent \/ QueueNameEmpty \/ BadDatasourceParams
                    \/ BadThreadParams))
        => Requests(log) = <<>>

-----------------------------------------------------------------------------
(* C10 *)

MemorySection == IF opts.action = "heap_usage" THEN "heap-memory-usage"
                 ELSE "non-heap-memory-usage"

\* heap_usage or non_heap_usage ran with -W w and -C c given, w <= c, and both
\* fetches succeeded with used (first) and a positive max (second) present
MemoryCheckRan ==
    /\ Dispatched
    /\ opts.action \in {"heap_usage", "non_heap_usage"}
    /\ opts.warning # None
    /\ opts.critical # None
    /\ args.warning.n <= args.critical.n
    /\ GoodResponse(1)
    /\ GoodResponse(2)
    /\ MemorySection \in DOMAIN Body(1)
    /\ MemorySection \in DOMAIN Body(2)
    /\ "used" \in DOMAIN Body(1)[MemorySection]
    /\ "max" \in DOMAIN Body(2)[MemorySection]
    /\ Body(2)[MemorySection]["max"].n > 0

\* percent = round(used * 100 / max, 2), in hundredths
ClaimedPercent ==
    RoundDiv(Body(1)[MemorySection]["used"].n, 10000, Body(2)[MemorySection]["max"].n)

\* C10: check_heap_usage(w, c) and check_non_heap_usage(w, c), on successful
\* fetches with positive max, end with code 0 when percent < w, 1 when
\* w <= percent < c and 2 when percent >= c, for the w and c given.
C10_MemoryPercentLevels ==
    MemoryCheckRan =>
        IF ClaimedPercent >= 100 * args.critical.n THEN EndsWith("CRITICAL", 2)
        ELSE IF ClaimedPercent >= 100 * args.warning.n THEN EndsWith("WARNING", 1)
        ELSE EndsWith("OK", 0)

-----------------------------------------------------------------------------
(* C11 *)

\* heap_usage or non_heap_usage ran and both fetches succeeded, with used present
\* in the first response and max present in the second
MemoryReadingsFetched ==
    /\ Dispatched
    /\ opts.action \in {"heap_usage", "non_heap_usage"}
    /\ GoodResponse(1)
    /\ GoodResponse(2)
    /\ MemorySection \in DOMAIN Body(1)
    /\ MemorySection \in DOMAIN Body(2)
    /\ "used" \in DOMAIN Body(1)[MemorySection]
    /\ "max" \in DOMAIN Body(2)[MemorySection]

ReportedMax == Body(2)[MemorySection]["max"].n

\* C11: when the reported max of the memory area is 0 or negative, heap_usage and
\* non_heap_usage end with a status that comes from a classification (one line,
\* written by check_levels, no error report of an arithmetic fault), and that
\* status is OK with exit code 0 for the non-heap area.
C11_UnlimitedMaxGuarded ==
    (MemoryReadingsFetched /\ ReportedMax <= 0) =>
        /\ Len(StdoutLines) = 1
        /\ Len(Classifies(log)) = 1
        /\ exitCode = StatusCode(StdoutLines[1].status)
        /\ (opts.action = "non_heap_usage" => EndsWith("OK", 0))

-----------------------------------------------------------------------------
(* C12 *)

\* the first fetch of heap_usage or non_heap_usage met an unreachable host or got
\* a 404 response
MemoryFetchNotFound ==
    /\ Exited
    /\ opts.action \in {"heap_usage", "non_heap_usage"}
    /\ Len(resps) >= 1
    /\ (resps[1].net = "error" \/ resps[1].status = 404)

\* C12: when the fetch of heap_usage or non_heap_usage gets a 404 response or the
\* host is unreachable, the process ends with the UNKNOWN exit code -1 after one
\* diagnostic line, without any call of check_levels.
C12_NotFoundIsUnknown ==
    MemoryFetchNotFound =>
        /\ exitCode = -1
        /\ Len(StdoutLines) = 1
        /\ Classifies(log) = <<>>

-----------------------------------------------------------------------------
(* C13 *)

\* response i was received and is a JSON object
ObjectResponse(i) ==
    /\ Len(resps) >= i
    /\ resps[i].net = "ok"
    /\ resps[i].body.json = "dict"

\* response i is a JSON object whose top-level outcome is "failed"
OutcomeFailed(i) ==
    /\ ObjectResponse(i)
    /\ "outcome" \in DOMAIN Body(i)
    /\ Body(i)["outcome"] = "failed"

\* the actions that classify one field of one response, with the parameters that
\* name it valid
SingleFetchAction ==
    \/ opts.action = "server_status"
    \/ opts.action = "threading" /\ ~BadThreadParams
    \/ opts.action = "queue_depth" /\ ~QueueNameAbsent
    \/ opts.action \in {"datasource", "xa_datasource"} /\ ~BadDatasourceParams

\* the key such an action reads from its response
MetricKey ==
    CASE opts.action = "server_status" -> "result"
      [] opts.action = "threading" -> opts.thread_stat_type.s
      [] opts.action = "queue_depth" -> "message-count"
      [] OTHER -> opts.ds_stat_type.s

\* C13: a response whose top-level outcome is "failed" ends the invocation there:
\* it is the last response fetched, no call of check_levels is made, the exit code
\* is 2 and the last line is CRITICAL and carries the whole response object.  A
\* JSON object with no outcome field or another outcome is handed to extraction:
\* the field the action reads from it is the value given to check_levels.
C13_OutcomeFailed ==
    Exited =>
        /\ \A i \in 1..Len(resps) :
              OutcomeFailed(i) =>
                  /\ i = Len(resps)
                  /\ Classifies(log) = <<>>
                  /\ exitCode = 2
                  /\ StdoutLines[Len(StdoutLines)].status = "CRITICAL"
                  /\ "data" \in DOMAIN StdoutLines[Len(StdoutLines)]
                  /\ StdoutLines[Len(StdoutLines)].data = Body(i)
        /\ (SingleFetchAction /\ ObjectResponse(1) /\ ~OutcomeFailed(1)
                /\ MetricKey \in DOMAIN Body(1)) =>
              /\ Len(Classifies(log)) = 1
              /\ Classifies(log)[1].param = Body(1)[MetricKey]

\* a failed response that carries the metric ended the invocation with code 2
C13_Witness ==
    /\ Exited
    /\ SingleFetchAction
    /\ OutcomeFailed(1)
    /\ MetricKey \in DOMAIN Body(1)
    /\ exitCode = 2
    /\ Classifies(log) = <<>>

\* a response marked "success" was handed to extraction and classified
C13_WitnessPassedOn ==
    /\ Exited
    /\ SingleFetchAction
    /\ ObjectResponse(1)
    /\ "outcome" \in DOMAIN Body(1)
    /\ ~OutcomeFailed(1)
    /\ Len(Classifies(log)) = 1

-----------------------------------------------------------------------------
(* C14 *)

\* log[i] is the status line check_levels wrote for the metric: the line that
\* follows the call (only check_levels writes OK and WARNING; in the numeric
\* actions it writes the CRITICAL line after its call as well)
MetricLine(i) ==
    /\ i > 1
    /\ IsLine(log[i])
    /\ IsClassify(log[i - 1])
    /\ (log[i].status \in {"OK", "WARNING"} \/ opts.action # "server_status")

\* the fields of one item of the block: label=value, then what follows it
PerfFields(item) == Len(item) - 1

\* C14: with performance data enabled the status line of the metric carries a
\* block with one item of five fields, label=value;warning;critical;min;max; with
\* it disabled the line carries no block.
C14_PerformanceData ==
    \A i \in 1..Len(log) :
        MetricLine(i) =>
            LET perf == log[i].msg.perf
            IN  IF opts.perf_data
                THEN /\ perf.block
                     /\ Len(perf.items) = 1
                     /\ PerfFields(perf.items[1]) = 5
                ELSE /\ ~perf.block
                     /\ perf.items = <<>>

-----------------------------------------------------------------------------
(* C15 *)

\* C15: in set-based evaluation a value that is a member of the critical set is
\* classified CRITICAL (2) whether or not it is also in the warning or the ok
\* set, and a value in the warning set but not in the critical set is classified
\* WARNING (1) even if it is also in the ok set.
C15_SetPrecedence ==
    SetBasedCall =>
        /\ PyIn(lv_in.param, lv_in.critical) = "yes" => Classified(lv_out, "CRITICAL", 2)
        /\ (PyIn(lv_in.param, lv_in.critical) = "no"
                /\ PyIn(lv_in.param, lv_in.warning) = "yes")
              => Classified(lv_out, "WARNING", 1)

\* a value in all three sets was classified CRITICAL
C15_Witness ==
    /\ SetBasedCall
    /\ PyIn(lv_in.param, lv_in.critical) = "yes"
    /\ PyIn(lv_in.param, lv_in.warning) = "yes"
    /\ PyIn(lv_in.param, lv_in.ok) = "yes"
    /\ Classified(lv_out, "CRITICAL", 2)

\* a value in the warning and the ok set, not in the critical set, was classified
\* WARNING
C15_WitnessWarning ==
    /\ SetBasedCall
    /\ PyIn(lv_in.param, lv_in.critical) = "no"
    /\ PyIn(lv_in.param, lv_in.warning) = "yes"
    /\ PyIn(lv_in.param, lv_in.ok) = "yes"
    /\ Classified(lv_out, "WARNING", 1)

-----------------------------------------------------------------------------
(* C16 *)

\* the thresholds an action uses when -W and -C are not given
DefaultThresholds ==
    CASE opts.action \in {"heap_usage", "non_heap_usage", "eden_space_usage",
                          "old_gen_usage"} -> [warning |-> Num(80), critical |-> Num(90)]
      [] opts.action \in {"perm_gen_usage", "code_cache_usage"} ->
            [warning |-> Num(90), critical |-> Num(95)]
      [] opts.action = "gctime" -> [warning |-> Num(500), critical |-> Num(1000)]
      [] opts.action \in {"queue_depth", "threading"} ->
            [warning |-> Num(100), critical |-> Num(200)]
      [] OTHER -> [warning |-> Num(0), critical |-> Num(10)]

\* C16: in every action other than server_status, each call of check_levels is
\* given the warning threshold of -W when -W is supplied (0 included) and the
\* action's default only when it is not, and likewise the critical threshold of -C.
C16_SuppliedThresholdUsed ==
    (Dispatched /\ opts.action # "server_status") =>
        \A i \in 1..Len(log) :
            IsClassify(log[i]) =>
                /\ log[i].warning = (IF opts.warning # None THEN args.warning
                                     ELSE DefaultThresholds.warning)
                /\ log[i].critical = (IF opts.critical # None THEN args.critical
                                      ELSE DefaultThresholds.critical)

-----------------------------------------------------------------------------
(* C17 *)

\* response i is a good one and holds this reading of the pool the action names
PoolReading(i, memory_value) ==
    /\ GoodResponse(i)
    /\ IsStr(PoolRead)
    /\ "name" \in DOMAIN Body(i)
    /\ PoolRead.s \in DOMAIN Body(i)["name"]
    /\ memory_value \in DOMAIN Body(i)["name"][PoolRead.s]["usage"]

\* this pool action ran and its first fetch succeeded, with used of the pool present
PoolUsedFetched(action) ==
    /\ Dispatched
    /\ opts.action = action
    /\ PoolReading(1, "used")

\* the second fetch succeeded as well, with a positive max of the pool present
PoolMaxFetched ==
    /\ PoolReading(2, "max")
    /\ Body(2)["name"][PoolRead.s]["usage"]["max"].n > 0

\* percent = round(used * 100 / max, 2) of the pool, in hundredths
PoolPercent ==
    RoundDiv(Body(1)["name"][PoolRead.s]["usage"]["used"].n, 10000,
             Body(2)["name"][PoolRead.s]["usage"]["max"].n)

\* the thresholds of the invocation: those of -W and -C, or the action's defaults
ThresholdsGiven ==
    [warning |-> IF opts.warning # None THEN args.warning ELSE DefaultThresholds.warning,
     critical |-> IF opts.critical # None THEN args.critical ELSE DefaultThresholds.critical]

\* the invocation ended with the status of the pool's percentage
EndsByPoolPercent ==
    IF PoolPercent >= 100 * ThresholdsGiven.critical.n THEN EndsWith("CRITICAL", 2)
    ELSE IF PoolPercent >= 100 * ThresholdsGiven.warning.n THEN EndsWith("WARNING", 1)
    ELSE EndsWith("OK", 0)

\* C17: eden_space_usage, once its fetch of used has succeeded, fetches max as
\* old_gen_usage, perm_gen_usage and code_cache_usage do, and when that fetch
\* succeeds with a positive max it makes one call of check_levels and ends
\* CRITICAL, WARNING or OK according to percent = round(used * 100 / max, 2) of
\* the named pool against its thresholds.
C17_EdenLikeOtherPools ==
    PoolUsedFetched("eden_space_usage") =>
        /\ Len(Requests(log)) = 2
        /\ PoolMaxFetched =>
              /\ Len(Classifies(log)) = 1
              /\ EndsByPoolPercent

====
